---- MODULE Spec2Model ----
(***************************************************************************)
(* A model of kesmarag.ml.gmm.GMM (src/gmm.py): construction, the EM loop  *)
(* of fit with its positive-definiteness repair, and the two density       *)
(* queries.                                                                *)
(*                                                                         *)
(* Numbers.  The program computes in float64.  Here every real is an       *)
(* integer count of 1/Q (Q = 1000), and every product and quotient is      *)
(* rounded back to that resolution, as float64 rounds to its own.  Two     *)
(* properties of float64 that the program's loops depend on are kept by    *)
(* the rounding chosen: a quotient of positive numbers stays positive      *)
(* (AwayDiv rounds away from zero), and 0.0 stays 0.0.  A density that is  *)
(* too small for the resolution underflows to 0, as it does in float64     *)
(* (much further out).  NaN is a value of its own.                         *)
(*                                                                         *)
(* Library calls.  numpy, scipy and sklearn are not part of the            *)
(* repository; each call is modelled by what it computes: the normal       *)
(* density (exp and sqrt quantised to the resolution, the exponent to      *)
(* quarter units), log (to quarter units), eigvals (exact for 1x1 and 2x2  *)
(* symmetric matrices, LinAlgError on NaN), KMeans (any clustering that is *)
(* a fixed point of Lloyd's iteration; ValueError when there are fewer     *)
(* rows than clusters).                                                    *)
(*                                                                         *)
(* Scope.  Data matrices have N >= 1 rows of one column (D = 1); a model   *)
(* built with 0 mixtures or 0 dimensions is constructed but not operated   *)
(* on; a model left behind by an exception is not operated on again.       *)
(* get_multivariate is called with both intervals of positive width or     *)
(* both of zero width (with exactly one of zero width the repair inflates  *)
(* the other diagonal entry until float64 overflows).                      *)
(***************************************************************************)
EXTENDS Integers, Sequences, FiniteSets, TLC

VARIABLES
  pc,                \* where the caller is: "new", "idle", "loop", "repair", "mv", "raised"
  err,               \* the exception that escaped, or "none"
  num_mixtures,      \* the constructor's arguments
  data_dim,
  m, d,              \* self._m, self._d
  pi, mu, sigma,     \* self._pi, self._mu, self._sigma
  gamma,             \* self._gamma (None until the first E-step)
  post,              \* self._post
  data, max_steps, tol, use_kmeans,   \* fit's arguments
  step, post_prev,   \* fit's locals
  sum_m_pi_mixture,  \* _expectation_maximization's local (E-step column sums)
  k, j,              \* the repair loop's indices
  qm, cov, qargs, result,  \* get_multivariate's loop index, matrix, arguments; the last query's return value
  op,                \* the last operation called: "none", "init", "fit", "marginal", "multivariate"
  nfits,             \* history: fit calls made
  valid_calls,       \* history: every fit call so far had max_steps >= 1 and tol > 0
  kmeans_calls,      \* history: KMeans runs of the current fit call
  kmeans_step,       \* history: value of step at the last KMeans run of the call
  centers,           \* history: the cluster centers it returned
  e_pi, e_mu, e_sigma  \* history: the parameters the last E-step evaluated the densities with

vars == <<pc, err, num_mixtures, data_dim, m, d, pi, mu, sigma, gamma, post,
          data, max_steps, tol, use_kmeans, step, post_prev, sum_m_pi_mixture,
          k, j, qm, cov, qargs, result, op, nfits, valid_calls, kmeans_calls, kmeans_step,
          centers, e_pi, e_mu, e_sigma>>

modelVars == <<m, d, pi, mu, sigma, gamma, post>>
fitLocals == <<data, max_steps, tol, use_kmeans, step, post_prev, sum_m_pi_mixture, k, j>>
queryVars == <<qm, cov, qargs, result>>
histVars  == <<nfits, valid_calls, kmeans_calls, kmeans_step, centers, e_pi, e_mu, e_sigma>>

(***************************************************************************)
(* Bounds of the model: the largest max_steps passed to fit, the number of *)
(* fit calls on one model, and the passes of the repair loop of line 142   *)
(* that are followed on one matrix (a matrix still in the loop after that  *)
(* many passes is one the loop does not change).                          *)
(***************************************************************************)
MaxSteps == 3
MaxFits == 2
MaxRepair == 24

(***************************************************************************)
(* Fixed-point arithmetic.                                                 *)
(***************************************************************************)
Q == 1000
NaN == -1000000000
None == <<>>

Abs(x) == IF x < 0 THEN -x ELSE x

RDiv(a, b) == (2 * a + b) \div (2 * b)

AwayDiv(a, b) == IF a >= 0 THEN (a + b - 1) \div b ELSE -((b - a - 1) \div b)

Mul(a, b) == RDiv(a * b, Q)

\* a function on 1..n as the tuple of its values
Tup(f) == f \o <<>>

RECURSIVE SeqSum(_)
SeqSum(s) == IF s = <<>> THEN 0 ELSE Head(s) + SeqSum(Tail(s))

RECURSIVE SqrtIter(_, _)
SqrtIter(n, r) ==
  LET r2 == (r + n \div r) \div 2
  IN IF r2 >= r THEN r ELSE SqrtIter(n, r2)

ISqrt(n) == IF n = 0 THEN 0 ELSE SqrtIter(n, n)


(***************************************************************************)
(* Library calls.                                                          *)
(***************************************************************************)
\* exp(-t4/4), t4 a count of quarter units: e^(-1/4) = 0.779
RECURSIVE ExpNeg(_, _)
ExpNeg(t4, acc) ==
  IF t4 = 0 \/ acc = 0 THEN acc ELSE ExpNeg(t4 - 1, (acc * 779) \div 1000)

\* floor(4 ln x) for x >= 1 and for 0 < x < 1: e^(1/4) = 1.284
RECURSIVE LnUp(_, _, _)
LnUp(x, g, n) ==
  LET g2 == (g * 1284) \div 1000
  IN IF g2 > x THEN n ELSE LnUp(x, g2, n + 1)

RECURSIVE LnDown(_, _, _)
LnDown(x, e, n) ==
  IF e <= x THEN -n ELSE LnDown(x, (e * 779) \div 1000, n + 1)

\* np.log of a positive number
Log(x) == (Q \div 4) * (IF x >= Q THEN LnUp(x, Q, 0) ELSE LnDown(x, Q, 0))

\* the density of N(mean, var) at x; 159155 is 1/(2 pi) in millionths
NormPdf(x, mean, var) ==
  IF var = 0 THEN NaN
  ELSE LET dev  == x - mean
           dev2 == AwayDiv(dev * dev, Q)
           t4   == (2 * dev2) \div var
           norm == ISqrt((159155 * Q) \div var)
       IN Mul(norm, ExpNeg(t4, Q))

\* multivariate_normal.pdf(row, mean, cov) for rows of one column
MvnPdf(row, mean, covm) == NormPdf(row[1], mean[1], covm[1][1])

Identity(n) == Tup([a \in 1..n |-> Tup([b \in 1..n |-> IF a = b THEN Q ELSE 0])])

HasNaN(s) == \E a \in 1..Len(s) : \E b \in 1..Len(s[a]) : s[a][b] = NaN

\* 0.02 and 0.05 at the resolution Q
Threshold == 20
Perturb == 50

\* np.all(np.linalg.eigvals(sigma) > 0.02) for a symmetric matrix without NaN:
\* both eigenvalues of a 2x2 matrix exceed t iff the matrix minus t*I is
\* positive definite (Sylvester's criterion).
EigvalsAbove(s, t) ==
  CASE Len(s) = 0 -> TRUE
    [] Len(s) = 1 -> s[1][1] > t
    [] Len(s) = 2 -> /\ s[1][1] > t
                     /\ s[2][2] > t
                     /\ (s[1][1] - t) * (s[2][2] - t) > s[1][2] * s[2][1]

IsPosDef_ZeroThreshold(s) == EigvalsAbove(s, 0)

IsPosDef(s) == EigvalsAbove(s, Threshold)

\* s + 0.05 * identity * s, elementwise
Inflate(s) ==
  Tup([a \in 1..Len(s) |-> Tup([b \in 1..Len(s) |->
     s[a][b] + (IF a = b THEN AwayDiv(Perturb * s[a][b], Q) ELSE 0)])])

\* KMeans(n_clusters, random_state=0).fit(data).cluster_centers_: the centroids
\* of a clustering in which every row is nearest to its own centroid
Centroid(dat, rows, dim) ==
  Tup([c \in 1..dim |->
     RDiv(SeqSum([n \in 1..Len(dat) |-> IF n \in rows THEN dat[n][c] ELSE 0]),
          Cardinality(rows))])

KMeansCenters(dat, nc, dim) ==
  LET N == Len(dat)
      Assignments == {a \in [1..N -> 1..nc] : \A c \in 1..nc : \E n \in 1..N : a[n] = c}
      Ctr(a) == Tup([c \in 1..nc |-> Centroid(dat, {n \in 1..N : a[n] = c}, dim)])
      Dist(x, y) == SeqSum([c \in 1..dim |-> (x[c] - y[c]) * (x[c] - y[c])])
      Stable(a) == \A n \in 1..N : \A c \in 1..nc :
                      Dist(dat[n], Ctr(a)[a[n]]) <= Dist(dat[n], Ctr(a)[c])
  IN {Ctr(a) : a \in {b \in Assignments : Stable(b)}}

(***************************************************************************)
(* _expectation_maximization, lines 118-138: the E-step and the M-step up  *)
(* to the raw covariances.                                                 *)
(***************************************************************************)
Mixture(dat, muv, sig) ==
  Tup([mm \in 1..Len(muv) |->
         Tup([n \in 1..Len(dat) |-> MvnPdf(dat[n], muv[mm], sig[mm])])])

PiMixture(piv, mix) ==
  Tup([mm \in 1..Len(piv) |->
         Tup([n \in 1..Len(mix[mm]) |-> Mul(piv[mm], mix[mm][n])])])

SumOverMixtures(pm, N) ==
  Tup([n \in 1..N |-> SeqSum([mm \in 1..Len(pm) |-> pm[mm][n]])])

Gamma_Unnormalised(pm, sm) == pm

\* pi_mixture / sum_m_pi_mixture; 0/0 is NaN
Gamma(pm, sm) ==
  Tup([mm \in 1..Len(pm) |-> Tup([n \in 1..Len(sm) |->
     IF sm[n] = 0 THEN NaN ELSE RDiv(pm[mm][n] * Q, sm[n])])])

RowHasNaN(r) == \E n \in 1..Len(r) : r[n] = NaN

\* np.sum(self._gamma, axis=-1)
EffectiveCounts(g) ==
  Tup([mm \in 1..Len(g) |-> IF RowHasNaN(g[mm]) THEN NaN ELSE SeqSum(g[mm])])

\* N_m / data.shape[0]
NewPi(Nm, N) ==
  Tup([mm \in 1..Len(Nm) |-> IF Nm[mm] = NaN THEN NaN ELSE RDiv(Nm[mm], N)])

\* np.dot(self._gamma, data) / N_m
NewMu(g, Nm, dat, dim) ==
  Tup([mm \in 1..Len(g) |-> Tup([c \in 1..dim |->
     IF Nm[mm] = NaN \/ Nm[mm] = 0 THEN NaN
     ELSE RDiv(SeqSum([n \in 1..Len(dat) |-> g[mm][n] * dat[n][c]]), Nm[mm])])])

\* sum_n gamma[m,n] (x_n - mu_m)(x_n - mu_m)^T / N_m
NewSigma(g, Nm, dat, muv, dim) ==
  Tup([mm \in 1..Len(g) |-> Tup([a \in 1..dim |-> Tup([b \in 1..dim |->
     IF Nm[mm] = NaN \/ Nm[mm] = 0 THEN NaN
     ELSE AwayDiv(SeqSum([n \in 1..Len(dat) |->
                     g[mm][n] * AwayDiv((dat[n][a] - muv[mm][a]) * (dat[n][b] - muv[mm][b]), Q)]),
                  Nm[mm])])])])

\* the log-likelihood of the data under given parameters
LogLikelihood(dat, piv, muv, sig) ==
  LET sm == SumOverMixtures(PiMixture(piv, Mixture(dat, muv, sig)), Len(dat))
  IN SeqSum([n \in 1..Len(dat) |-> Log(sm[n])])

PosteriorOfCurrent(sm, dat, piv, muv, sig) == LogLikelihood(dat, piv, muv, sig)

\* line 148: np.sum(np.log(sum_m_pi_mixture)); the data and the updated
\* parameters are in scope there and are not used
Posterior(sm, dat, piv, muv, sig) == SeqSum([n \in 1..Len(sm) |-> Log(sm[n])])


(***************************************************************************)
(* The inputs the callers draw from.                                       *)
(***************************************************************************)
MixtureCounts == {-1, 0, 1, 2}
Dims == {-1, 0, 1}
\* np.random.randn: the initial coordinates of the means
MuInit == {0, 1000}
\* N x 1 data matrices
DataSets == {<< <<0>>, <<20>> >>, << <<1000>>, <<1000>> >>, << <<0>>, <<2000>> >>, << <<1000>> >>}
TolChoices == {0, 50}
Intervals == {<<-1000, 1000>>, <<0, 4000>>, <<0, 0>>}
IntervalPairs == {<< <<-1000, 1000>>, <<-1000, 1000>> >>, << <<-1000, 1000>>, <<0, 4000>> >>,
                  << <<0, 0>>, <<0, 0>> >>}
PlotIntervals == {<<-2000, 2000>>}
SampleCounts == {3}
ScalingFactors == {1000}

(***************************************************************************)
(* GMM.__init__                                                            *)
(***************************************************************************)
Init ==
  /\ pc = "new" /\ err = "none" /\ op = "none"
  /\ num_mixtures = 0 /\ data_dim = 0
  /\ m = 0 /\ d = 0
  /\ pi = None /\ mu = None /\ sigma = None /\ gamma = None /\ post = 0
  /\ data = None /\ max_steps = 0 /\ tol = 0 /\ use_kmeans = FALSE
  /\ step = 0 /\ post_prev = 0 /\ sum_m_pi_mixture = None /\ k = 0 /\ j = 0
  /\ qm = 0 /\ cov = None /\ qargs = None /\ result = None
  /\ nfits = 0 /\ valid_calls = TRUE /\ kmeans_calls = 0 /\ kmeans_step = 0 /\ centers = None
  /\ e_pi = None /\ e_mu = None /\ e_sigma = None

\* np.ones((m,)) and np.random.randn(m, d) raise ValueError on a negative
\* dimension; 0 is accepted by both and by np.identity
Construct(nm, dd) ==
  /\ pc = "new"
  /\ num_mixtures' = nm /\ data_dim' = dd /\ op' = "init"
  /\ IF nm < 0 \/ dd < 0
     THEN /\ pc' = "raised" /\ err' = "ValueError"
          /\ UNCHANGED modelVars
     ELSE /\ pc' = "idle" /\ err' = "none"
          /\ m' = nm /\ d' = dd
          /\ pi' = Tup([i \in 1..nm |-> RDiv(Q, nm)])
          /\ mu' \in [1..nm -> [1..dd -> MuInit]]
          /\ sigma' = Tup([i \in 1..nm |-> Identity(dd)])
          /\ gamma' = None
          /\ post' = 0
  /\ UNCHANGED <<fitLocals, queryVars, histVars>>

(***************************************************************************)
(* GMM.fit                                                                 *)
(***************************************************************************)
FitCall(dat, ms, tl, km) ==
  /\ pc = "idle" /\ m >= 1 /\ d >= 1
  /\ nfits < MaxFits
  /\ data' = dat /\ max_steps' = ms /\ tol' = tl /\ use_kmeans' = km
  /\ step' = 0
  /\ post_prev' = (tl + Q) * Len(dat)
  /\ sum_m_pi_mixture' = None /\ k' = 0 /\ j' = 0
  /\ pc' = "loop" /\ op' = "fit"
  /\ nfits' = nfits + 1 /\ valid_calls' = (valid_calls /\ ms >= 1 /\ tl > 0)
  /\ kmeans_calls' = 0 /\ kmeans_step' = 0 /\ centers' = None
  /\ qm' = 0 /\ cov' = None /\ qargs' = None /\ result' = None
  /\ UNCHANGED <<err, num_mixtures, data_dim, modelVars, e_pi, e_mu, e_sigma>>

FitCond_NoCap(pst, prev, N, tl, st, ms) == Abs(pst - prev) > tl * N

\* np.abs(self._post - post_prev) / data.shape[0] > tol and step < max_steps
\* (the division by N > 0 is carried to the other side)
FitCond(pst, prev, N, tl, st, ms) == Abs(pst - prev) > tl * N /\ st < ms

KMeansDue_EveryStep(st, km) == km

\* step == 0 and use_kmeans
KMeansDue(st, km) == st = 0 /\ km

\* one pass of the loop body up to line 138
EStepMStep(mu1) ==
  LET N   == Len(data)
      pm  == PiMixture(pi, Mixture(data, mu1, sigma))
      sm  == SumOverMixtures(pm, N)
      g   == Gamma(pm, sm)
      Nm  == EffectiveCounts(g)
      mu2 == NewMu(g, Nm, data, d)
  IN /\ post_prev' = post
     /\ e_pi' = pi /\ e_mu' = mu1 /\ e_sigma' = sigma
     /\ sum_m_pi_mixture' = sm
     /\ gamma' = g
     /\ pi' = NewPi(Nm, N)
     /\ mu' = mu2
     /\ sigma' = NewSigma(g, Nm, data, mu2, d)
     /\ k' = 1 /\ j' = 0
     /\ pc' = "repair"
     /\ UNCHANGED <<err, m, d, post, step>>

FitIterate ==
  /\ pc = "loop"
  /\ FitCond(post, post_prev, Len(data), tol, step, max_steps)
  /\ IF KMeansDue(step, use_kmeans)
     THEN IF Len(data) < m
          THEN /\ pc' = "raised" /\ err' = "ValueError"
               /\ UNCHANGED <<modelVars, post_prev, sum_m_pi_mixture, k, j, step,
                              kmeans_calls, kmeans_step, centers, e_pi, e_mu, e_sigma>>
          ELSE \E c \in KMeansCenters(data, m, d) :
                 /\ kmeans_calls' = kmeans_calls + 1
                 /\ kmeans_step' = step
                 /\ centers' = c
                 /\ EStepMStep(c)
     ELSE /\ EStepMStep(mu)
          /\ UNCHANGED <<kmeans_calls, kmeans_step, centers>>
  /\ UNCHANGED <<num_mixtures, data_dim, data, max_steps, tol, use_kmeans,
                 queryVars, op, nfits, valid_calls>>

FitReturn ==
  /\ pc = "loop"
  /\ ~FitCond(post, post_prev, Len(data), tol, step, max_steps)
  /\ pc' = "idle"
  /\ UNCHANGED <<err, num_mixtures, data_dim, modelVars, fitLocals, queryVars, op, histVars>>

\* line 142 on a matrix holding NaN: np.linalg.eigvals raises LinAlgError
RepairRaise ==
  /\ pc = "repair"
  /\ HasNaN(sigma[k])
  /\ pc' = "raised" /\ err' = "LinAlgError"
  /\ UNCHANGED <<num_mixtures, data_dim, modelVars, fitLocals, queryVars, op, histVars>>

\* lines 142-146: one pass of the while loop
RepairStep ==
  /\ pc = "repair"
  /\ ~HasNaN(sigma[k])
  /\ ~IsPosDef(sigma[k])
  /\ j < MaxRepair
  /\ j' = j + 1
  /\ sigma' = [sigma EXCEPT ![k] = Inflate(sigma[k])]
  /\ UNCHANGED <<pc, err, num_mixtures, data_dim, m, d, pi, mu, gamma, post,
                 data, max_steps, tol, use_kmeans, step, post_prev, sum_m_pi_mixture, k,
                 queryVars, op, histVars>>

\* the while loop exits: the next k, or line 148 and back to the loop test of fit
RepairDone ==
  /\ pc = "repair"
  /\ ~HasNaN(sigma[k])
  /\ IsPosDef(sigma[k])
  /\ IF k < m
     THEN /\ k' = k + 1 /\ j' = 0
          /\ UNCHANGED <<pc, post, step>>
     ELSE /\ post' = Posterior(sum_m_pi_mixture, data, pi, mu, sigma)
          /\ step' = step + 1
          /\ pc' = "loop"
          /\ UNCHANGED <<k, j>>
  /\ UNCHANGED <<err, num_mixtures, data_dim, m, d, pi, mu, sigma, gamma,
                 data, max_steps, tol, use_kmeans, post_prev, sum_m_pi_mixture,
                 queryVars, op, histVars>>

(***************************************************************************)
(* GMM.get_marginal                                                        *)
(***************************************************************************)
\* (interval[1] - interval[0]) / (2.0 * scaling_factor)
Radius(interval, sf) == RDiv((interval[2] - interval[1]) * Q, 2 * sf)

\* (interval[0] + interval[1]) / 2.0
Centre(interval) == RDiv(interval[1] + interval[2], 2)

\* np.linspace(lo, hi, ns)
Linspace(lo, hi, ns) ==
  Tup([t \in 1..ns |-> IF ns = 1 THEN lo ELSE lo + RDiv((hi - lo) * (t - 1), ns - 1)])

\* sum_m pi[m] * normpdf(x, mu[m], sqrt(var[m])); a zero variance makes
\* normpdf divide by zero and every sample NaN
MarginalDensity(x, piv, muv, varv) ==
  Tup([t \in 1..Len(x) |->
         IF \E mm \in 1..Len(piv) : varv[mm] = 0 THEN NaN
         ELSE SeqSum([mm \in 1..Len(piv) |-> Mul(piv[mm], NormPdf(x[t], muv[mm], varv[mm]))])])

GetMarginal(i, interval, plot_interval, sf, ns) ==
  /\ pc = "idle" /\ m >= 1 /\ d >= 1
  /\ LET ra   == Radius(interval, sf)
         c    == Centre(interval)
         muv  == Tup([mm \in 1..m |-> Mul(ra, mu[mm][i + 1]) + c])
         varv == Tup([mm \in 1..m |-> Mul(sigma[mm][i + 1][i + 1], Mul(ra, ra))])
         x    == Linspace(plot_interval[1], plot_interval[2], ns)
     IN result' = <<x, MarginalDensity(x, pi, muv, varv)>>
  /\ qm' = 0 /\ cov' = None /\ qargs' = None
  /\ op' = "marginal"
  /\ UNCHANGED <<pc, err, num_mixtures, data_dim, modelVars, fitLocals, histVars>>

(***************************************************************************)
(* GMM.get_multivariate.  The frozen distributions multivariate_normal(mu, *)
(* cov) are collected in result; their evaluation over the grid is the     *)
(* library's.                                                              *)
(***************************************************************************)
\* lines 83-84
CovBlock(sig, i, jj, ra_i, ra_j) ==
  << << Mul(sig[i + 1][i + 1], Mul(ra_i, ra_i)), Mul(sig[i + 1][jj + 1], Mul(ra_i, ra_j)) >>,
     << Mul(sig[i + 1][jj + 1], Mul(ra_i, ra_j)), Mul(sig[jj + 1][jj + 1], Mul(ra_j, ra_j)) >> >>

SigmaAfterQueryRepair_InPlace(sig, mm, i, jj, c) ==
  [sig EXCEPT ![mm] = [a \in 1..Len(sig[mm]) |-> [b \in 1..Len(sig[mm]) |->
     IF a = i + 1 /\ b = i + 1 THEN c[1][1]
     ELSE IF a = jj + 1 /\ b = jj + 1 THEN c[2][2] ELSE sig[mm][a][b]]]]

\* line 86 binds the local name cov to a new array; self._sigma is not written
SigmaAfterQueryRepair(sig, mm, i, jj, c) == sig

GetMultivariateCall(i, jj, intervals, plot_intervals, sf, ns) ==
  /\ pc = "idle" /\ m >= 1 /\ d >= 1
  /\ LET ra_i == Radius(intervals[1], sf)
         ra_j == Radius(intervals[2], sf)
     IN /\ qargs' = [i |-> i, j |-> jj, ra_i |-> ra_i, ra_j |-> ra_j,
                     mu_i |-> Tup([mm \in 1..m |-> Mul(ra_i, mu[mm][i + 1]) + Centre(intervals[1])]),
                     mu_j |-> Tup([mm \in 1..m |-> Mul(ra_j, mu[mm][jj + 1]) + Centre(intervals[2])]),
                     x_i |-> Linspace(plot_intervals[1][1], plot_intervals[1][2], ns),
                     x_j |-> Linspace(plot_intervals[2][1], plot_intervals[2][2], ns)]
        /\ cov' = CovBlock(sigma[1], i, jj, ra_i, ra_j)
  /\ qm' = 1
  /\ result' = <<>>
  /\ pc' = "mv" /\ op' = "multivariate"
  /\ UNCHANGED <<err, num_mixtures, data_dim, modelVars, fitLocals, histVars>>

\* lines 85-86: one pass of the while loop
MvRepairStep ==
  /\ pc = "mv"
  /\ ~IsPosDef(cov)
  /\ cov' = Inflate(cov)
  /\ sigma' = SigmaAfterQueryRepair(sigma, qm, qargs.i, qargs.j, Inflate(cov))
  /\ UNCHANGED <<pc, err, num_mixtures, data_dim, m, d, pi, mu, gamma, post,
                 fitLocals, qm, qargs, result, op, histVars>>

\* lines 87-88, then the next mixture or the return
MvNext ==
  /\ pc = "mv"
  /\ IsPosDef(cov)
  /\ result' = Append(result, << <<qargs.mu_i[qm], qargs.mu_j[qm]>>, cov >>)
  /\ IF qm < m
     THEN /\ qm' = qm + 1
          /\ cov' = CovBlock(sigma[qm + 1], qargs.i, qargs.j, qargs.ra_i, qargs.ra_j)
          /\ pc' = pc
     ELSE /\ pc' = "idle"
          /\ UNCHANGED <<qm, cov>>
  /\ UNCHANGED <<err, num_mixtures, data_dim, modelVars, fitLocals, qargs, op, histVars>>

Next ==
  \/ \E nm \in MixtureCounts, dd \in Dims : Construct(nm, dd)
  \/ \E dat \in DataSets, ms \in 0..MaxSteps, tl \in TolChoices, km \in BOOLEAN :
       FitCall(dat, ms, tl, km)
  \/ FitIterate
  \/ FitReturn
  \/ RepairRaise
  \/ RepairStep
  \/ RepairDone
  \/ \E i \in 0..(d - 1), iv \in Intervals, pv \in PlotIntervals, sf \in ScalingFactors,
        ns \in SampleCounts : GetMarginal(i, iv, pv, sf, ns)
  \/ \E i \in 0..(d - 1), jj \in 0..(d - 1), iv \in IntervalPairs,
        pv \in PlotIntervals \X PlotIntervals, sf \in ScalingFactors, ns \in SampleCounts :
       GetMultivariateCall(i, jj, iv, pv, sf, ns)
  \/ MvRepairStep
  \/ MvNext

Spec == Init /\ [][Next]_vars

(***************************************************************************)
(* Properties.                                                             *)
(***************************************************************************)
\* a fit call whose arguments meet fit's preconditions
ValidFitArgs == max_steps >= 1 /\ tol > 0

\* |logPosterior_current - logPosterior_previous| / N <= tolerance
Converged == Abs(post - post_prev) <= tol * Len(data)

\* the model is a properly constructed one (M > 0, D > 0)
ProperModel == m >= 1 /\ d >= 1

\* C1: within a fit call with max_steps >= 1 and tol > 0, the number of
\* completed iterations never exceeds max_steps; the loop is left only when
\* the change of the log-posterior per row is within tol or max_steps
\* iterations have run; and an iteration is started only when neither holds.
C1_LoopStopsAtFirstPoint ==
  /\ [](op = "fit" /\ ValidFitArgs => step <= max_steps)
  /\ [][(op = "fit" /\ ValidFitArgs /\ pc = "loop" /\ pc' = "idle")
           => (Converged \/ step = max_steps)]_vars
  /\ [][(op = "fit" /\ ValidFitArgs /\ pc = "loop" /\ pc' \in {"repair", "raised"})
           => (~Converged /\ step < max_steps)]_vars

\* a call that stopped on convergence after at least one iteration and
\* before the cap
C1_Witness ==
  /\ op = "fit" /\ pc = "idle" /\ ValidFitArgs
  /\ step >= 1 /\ step < max_steps /\ Converged

\* C2: a fit call with max_steps >= 1 and tol > 0 that returns has run at
\* least one iteration, also on a model left by earlier (valid) fit calls.
C2_AtLeastOneIteration ==
  (op = "fit" /\ pc = "idle" /\ valid_calls) => step >= 1

\* C3: after construction and after every completed iteration every
\* covariance matrix has all its eigenvalues above 0.02 (for the 1x1
\* matrices of the model the eigenvalue is the entry).
C3_CovariancesPositiveDefinite ==
  (pc \in {"idle", "loop", "mv"}) =>
     \A mm \in 1..m : \A a \in 1..d : sigma[mm][a][a] > Threshold

\* an iteration has completed in which the repair changed a covariance
C3_Witness ==
  pc = "loop" /\ step >= 1 /\ j > 0 /\ sigma[k][1][1] > Threshold

\* C4: the repair always ends.  The loops read no attempt count and have no
\* failure exit, so they end only if every pass on a matrix that fails the
\* check changes that matrix.
C4_RepairEnds ==
  /\ (pc = "repair" /\ ~HasNaN(sigma[k]) /\ ~EigvalsAbove(sigma[k], Threshold))
        => Inflate(sigma[k]) # sigma[k]
  /\ (pc = "mv" /\ ~EigvalsAbove(cov, Threshold)) => Inflate(cov) # cov

\* C5: construction with M <= 0 or D <= 0 fails with an invalid-argument
\* error (ValueError) and yields no model; otherwise it yields weights 1/M,
\* identity covariances and logPosterior 0.
C5_ConstructionContract ==
  op = "init" =>
    IF num_mixtures <= 0 \/ data_dim <= 0
    THEN pc = "raised" /\ err = "ValueError" /\ pi = None /\ sigma = None
    ELSE /\ pc = "idle" /\ m = num_mixtures /\ d = data_dim
         /\ \A i \in 1..m : pi[i] = RDiv(Q, m) /\ sigma[i] = Identity(d)
         /\ post = 0

\* C6: a fit call with max_steps <= 0 or tol <= 0 is rejected with an
\* invalid-argument error: it runs no iteration and does not return normally.
C6_InvalidFitRejected ==
  (op = "fit" /\ ~ValidFitArgs) =>
     /\ pc \in {"loop", "raised"}
     /\ step = 0
     /\ (pc = "raised" => err = "ValueError")

\* C7: after construction and after any completed fit call the weights are
\* non-negative and sum to 1; after a completed fit call every column of the
\* responsibilities sums to 1, and after a call that ran an iteration
\* weights[m] = N_m / N.  Sums are exact up to the rounding of the terms:
\* one unit of resolution per mixture.
SumsToOne(s) == Abs(SeqSum(s) - Q) <= Len(s)

C7_WeightsAndResponsibilities ==
  (pc = "idle" /\ ProperModel) =>
     /\ \A mm \in 1..m : pi[mm] >= 0
     /\ SumsToOne(pi)
     /\ (op = "fit" /\ max_steps >= 1) =>
           /\ gamma # None
           /\ \A n \in 1..Len(gamma[1]) : SumsToOne([mm \in 1..m |-> gamma[mm][n]])
     /\ (op = "fit" /\ step >= 1) =>
           /\ Len(gamma[1]) = Len(data)
           /\ \A mm \in 1..m : pi[mm] = RDiv(SeqSum(gamma[mm]), Len(data))

\* a completed fit of two mixtures whose responsibilities are not uniform
C7_Witness ==
  /\ pc = "idle" /\ op = "fit" /\ m = 2 /\ step >= 1
  /\ gamma[1][1] # gamma[2][1] /\ pi[1] # pi[2]

\* C8: within one fit call KMeans runs at most once, only with use_kmeans
\* set, only at step 0, and the E-step of that iteration evaluates the
\* densities at the cluster centers.
C8_KMeansOnce ==
  op = "fit" =>
     /\ kmeans_calls <= 1
     /\ (~use_kmeans => kmeans_calls = 0)
     /\ (kmeans_calls = 1 => kmeans_step = 0)
     /\ (kmeans_calls = 1 /\ ((step = 0 /\ pc \in {"repair", "raised"})
                               \/ (step = 1 /\ pc \in {"loop", "idle"})))
           => e_mu = centers

\* a call with use_kmeans that went on to later iterations, the means having
\* moved away from the cluster centers
C8_Witness ==
  op = "fit" /\ use_kmeans /\ kmeans_calls = 1 /\ step >= 2 /\ mu # centers

\* C9: after every completed iteration the stored logPosterior is the
\* log-likelihood of the parameters the E-step of that iteration evaluated,
\* those held before the M-step; and each iteration hands the stored value
\* on as the previous one of the convergence test.
C9_PosteriorLags ==
  /\ []((op = "fit" /\ step >= 1 /\ pc \in {"loop", "idle"})
          => post = LogLikelihood(data, e_pi, e_mu, e_sigma))
  /\ [][(pc = "loop" /\ pc' = "repair") => post_prev' = post]_vars

\* an iteration has completed and the stored value is not the log-likelihood
\* of the parameters the model now holds
C9_Witness ==
  /\ op = "fit" /\ step >= 1 /\ pc = "loop"
  /\ post # LogLikelihood(data, pi, mu, sigma)
  /\ <<e_pi, e_mu, e_sigma>> # <<pi, mu, sigma>>

\* C10: every step of get_marginal and of get_multivariate leaves M, D, the
\* weights, means, covariances, responsibilities and logPosterior unchanged.
QueryStep ==
  /\ pc \in {"idle", "mv"} /\ pc' \in {"idle", "mv"}
  /\ op' \in {"marginal", "multivariate"}

C10_QueriesReadOnly == [][QueryStep => UNCHANGED modelVars]_vars

\* get_multivariate has returned after repairing its copy of the first
\* mixture's block, which differs from the block of the stored covariance
C10_Witness ==
  /\ op = "multivariate" /\ pc = "idle" /\ Len(result) = m
  /\ result[1][2] # CovBlock(sigma[1], qargs.i, qargs.j, qargs.ra_i, qargs.ra_j)

====
